---- MODULE Spec2Model ----
(***************************************************************************)
(* Model of robo/solver/bayesian_optimization.py: the BayesianOptimization *)
(* solver (initialize, run, choose_next).  One object is constructed, then *)
(* run() is called once on it.  The collaborators (task, model,            *)
(* acquisition function, maximizer, recommendation strategy) are opaque:   *)
(* each call either returns some value of its range or raises.             *)
(*                                                                         *)
(* Conventions:                                                            *)
(*   - numpy arrays are sequences; numpy's 0-based index k is k+1 here;    *)
(*   - the task is one-dimensional, a point is a member of Points;         *)
(*   - Python's None is NoneVal for scalars; X and Y, which are None       *)
(*     between construction and run(), are the empty sequence then (run()  *)
(*     assigns both before it reads either);                               *)
(*   - time.time() is the variable clock; every collaborator call and      *)
(*     every np.random.uniform draw advances it by one tick.               *)
(***************************************************************************)
EXTENDS Integers, Sequences, FiniteSets, TLC

\* ---- bounds of the model ----
MaxIter == 5
MaxSeedLen == 2
MaxRestarts == 2
MaxTrainIntervall == 2

\* ---- program constants ----
\* run(): n_init_points = 3, the first index of the main loop
n_init_points == 3
\* initialize(n_init_points=3): the number of random seed draws
initialize_n_init_points == 3

\* ---- domains ----
Points == {0, 1}
Values == {0, 1}
NoneVal == -1
Strategies == {"None", "optimize_posterior_mean_and_std", "other"}
RngSeeds == {0, 5}

VARIABLES
    \* constructor arguments (__init__)
    recommendation_strategy, train_intervall, n_restarts, save_dir, num_save,
    \* object fields
    X, Y, time_func_eval, time_optimization_overhead,
    incumbent, incumbent_value, model_untrained,
    \* arguments of run()
    num_iterations, seeded, arg_X, arg_Y,
    \* locals of run() / initialize() and the position in the code
    pc, i, it, new_x, start_time, start_time_inc, result,
    \* environment: time.time() and the state of np.random
    clock, rng,
    \* observation of the collaborators' calls
    train_calls,      \* every model.train call: <<it, do_optimize, rows of X passed>>
    acq_updates,      \* acquisition_func.update calls in the current iteration
    maximize_calls,   \* maximize_func.maximize calls in the current iteration
    max_out,          \* what the last maximize() returned
    strategy_calls,   \* recommendation_strategy calls in the current iteration
    drawn,            \* the points np.random yielded in the current iteration
    eval_calls,       \* every task.evaluate call that returned: <<x, y>>
    eval_arg,         \* the argument of the last task.evaluate call
    saved,            \* the save_iteration calls: <<iteration index, rows of X then>>
    X_before, Y_before, \* X and Y when the current iteration began
    err,              \* the exception that left run(), or "none"
    \* two runs side by side, for comparing what they evaluate
    pair

vars == <<recommendation_strategy, train_intervall, n_restarts, save_dir, num_save,
          X, Y, time_func_eval, time_optimization_overhead,
          incumbent, incumbent_value, model_untrained,
          num_iterations, seeded, arg_X, arg_Y,
          pc, i, it, new_x, start_time, start_time_inc, result, clock, rng,
          train_calls, acq_updates, maximize_calls, max_out, strategy_calls, drawn,
          eval_calls, eval_arg, saved, X_before, Y_before, err, pair>>

config == <<recommendation_strategy, train_intervall, n_restarts, save_dir, num_save>>
run_args == <<num_iterations, seeded, arg_X, arg_Y>>
timing == <<time_func_eval, time_optimization_overhead>>
observed == <<train_calls, acq_updates, maximize_calls, max_out, strategy_calls, drawn,
              eval_calls, eval_arg, saved>>

\* ---- pure helpers ----

\* np.zeros([n])
zeros(n) == [k \in 1..n |-> 0]

Min(s) == CHOOSE v \in {s[k] : k \in 1..Len(s)} : \A j \in 1..Len(s) : v <= s[j]

argmin_last(s) == CHOOSE k \in 1..Len(s) :
    /\ s[k] = Min(s)
    /\ \A j \in (k+1)..Len(s) : s[j] # s[k]

\* np.argmin: the first index holding the minimum (1-based here)
argmin(s) == CHOOSE k \in 1..Len(s) :
    /\ s[k] = Min(s)
    /\ \A j \in 1..(k-1) : s[j] # s[k]

\* np.random: the generator's next state, and the point a uniform draw yields
rng_next(s) == (5 * s + 3) % 8
rng_point(s) == rng_next(s) \div 4

\* n successive np.random.uniform draws from state s: [points, state]
RECURSIVE uniform_draws(_, _)
uniform_draws(s, n) ==
    IF n = 0 THEN [points |-> << >>, state |-> s]
    ELSE LET rest == uniform_draws(rng_next(s), n - 1)
         IN  [points |-> <<rng_point(s)>> \o rest.points, state |-> rest.state]

\* ---- the steps of the code, as operators ----

\* initialize(): the timing arrays are allocated at full length before the loop
init_timing(n) == zeros(n)

\* initialize(): X = np.zeros([1, n_dims]), Y = np.zeros([1, 1])
init_history == <<0>>

\* variant: the seeded timing arrays sized like initialize()'s
seed_timing_fixed(Xs) == zeros(n_init_points)

\* run(), seeded branch: np.zeros([self.X.shape[0]])
seed_timing(Xs) == zeros(Len(Xs))

\* variant: the supplied seed is dropped
adopt_nothing(s) == << >>

\* run(), seeded branch: self.X = X; self.Y = Y
adopt_seed(s) == s

\* initialize(): row i (0-based) of the history after draw i
record_draw(s, k, r) == IF k = 0 THEN [s EXCEPT ![1] = r] ELSE Append(s, r)

\* variant: the new row is put in front
prepend_row(s, r) == <<r>> \o s

\* run(): np.append(self.X, new_x, axis=0)
append_row(s, r) == Append(s, r)

\* variant: the candidate is recorded before task.evaluate is called
record_then_evaluate(s, r, returned) == Append(s, r)

\* run(): the history after the evaluate step; an exception raised by
\* task.evaluate leaves the append statements unexecuted
after_evaluate(s, r, returned) == IF returned THEN append_row(s, r) ELSE s

\* variant: the last of the minimal values is taken
best_observed_last(Xs, Ys) == [x |-> Xs[argmin_last(Ys)], v |-> Ys[argmin_last(Ys)]]

\* variant: the newest point is taken
newest_observed(Xs, Ys) == [x |-> Xs[Len(Xs)], v |-> Ys[Len(Ys)]]

\* best_idx = np.argmin(self.Y); (self.X[best_idx], self.Y[best_idx])
best_observed(Xs, Ys) == [x |-> Xs[argmin(Ys)], v |-> Ys[argmin(Ys)]]

\* variant: the cadence is counted from the first main-loop iteration
do_optimize_from_loop_start(iter, interval) == (iter - n_init_points) % interval = 0

\* run(): do_optimize
do_optimize(iter, interval) == iter % interval = 0

\* variant: the recommended point is evaluated
candidate_incumbent(nx, inc) == inc

\* run(): the point handed to task.evaluate and appended to X
candidate(nx, inc) == nx

\* variant: n_restarts - 1 random points and the best observed point
startpoints_B_total_n(draws, Xs, Ys) ==
    Append(SubSeq(draws, 1, Len(draws) - 1), Xs[argmin(Ys)])

\* Policy B: startpoints = [n_restarts random points]; startpoints.append(X[best_idx])
startpoints_B(draws, Xs, Ys) == Append(draws, Xs[argmin(Ys)])

\* the np.random.uniform draws of the recommendation step: none under Policy A,
\* n_restarts under Policies B and C
recommend_draws(strategy, s, n) ==
    IF strategy = "None" THEN [points |-> << >>, state |-> s] ELSE uniform_draws(s, n)

\* Policy C: startpoints = [n_restarts random points]
startpoints_C(draws, Xs, Ys) == draws

\* variant: the last of the minimal results is taken
select_last_best(x_opt, fval) ==
    [x |-> x_opt[argmin_last(fval)], v |-> fval[argmin_last(fval)]]

\* Policy C: best = np.argmin(fval); (x_opt[best], fval[best])
select_best(x_opt, fval) == [x |-> x_opt[argmin(fval)], v |-> fval[argmin(fval)]]

\* variant: num_save is not consulted
save_due_always(dir, iter, every) == dir

\* save_dir is not None and iteration % num_save == 0
save_due(dir, iter, every) == dir /\ iter % every = 0

\* run(): range(n_init_points, num_iterations)
loop_continues(iter, n) == iter < n

\* ---- initial state: the object after __init__ ----

\* The constructor arguments explored.  The recommendation policy with its
\* n_restarts, the training interval, the checkpoint settings and the seed of
\* np.random act on disjoint parts of run(), so each is varied over its range
\* with the others at their defaults (train_intervall=1, n_restarts=1,
\* save_dir=None, num_save=1); n_restarts is read by policies B and C only.
DefaultConfig == [strategy |-> "None", interval |-> 1, restarts |-> 1,
                  dir |-> FALSE, every |-> 1, seed |-> 0]

Configs ==
    {[DefaultConfig EXCEPT !.strategy = s, !.restarts = r] :
        s \in Strategies \ {"None"}, r \in 0..MaxRestarts}
    \cup {[DefaultConfig EXCEPT !.strategy = s, !.interval = t] :
        s \in Strategies, t \in 1..MaxTrainIntervall}
    \cup {[DefaultConfig EXCEPT !.strategy = s, !.dir = TRUE, !.every = e] :
        s \in Strategies, e \in 1..2}
    \cup {[DefaultConfig EXCEPT !.strategy = s, !.seed = g] :
        s \in Strategies, g \in RngSeeds}

\* the object constructed with the arguments c
InitObject(c) ==
    /\  /\ recommendation_strategy = c.strategy
        /\ train_intervall = c.interval
        /\ n_restarts = c.restarts
        /\ save_dir = c.dir
        /\ num_save = c.every
        /\ rng = c.seed
    /\ X = << >> /\ Y = << >>
    /\ time_func_eval = << >> /\ time_optimization_overhead = << >>
    /\ incumbent = NoneVal /\ incumbent_value = NoneVal
    /\ model_untrained = TRUE
    /\ num_iterations = 0 /\ seeded = FALSE /\ arg_X = << >> /\ arg_Y = << >>
    /\ pc = "constructed" /\ i = 0 /\ it = 0 /\ new_x = NoneVal
    /\ start_time = 0 /\ result = <<NoneVal, NoneVal>>
    /\ clock = 0
    /\ train_calls = << >> /\ acq_updates = 0 /\ maximize_calls = 0
    /\ max_out = NoneVal /\ strategy_calls = << >> /\ drawn = << >>
    /\ eval_calls = << >> /\ eval_arg = NoneVal /\ saved = << >>
    /\ X_before = << >> /\ Y_before = << >>
    /\ start_time_inc = 0
    /\ err = "none"

PairIdle == [active |-> FALSE]

Init ==
    /\ \E c \in Configs : InitObject(c)
    /\ pair = PairIdle

\* ---- run(): entry ----

\* the points of the seed histories explored: m rows alternating over Points,
\* each paired with every choice of values
SeedPoints(m) == [k \in 1..m |-> k % 2]

\* run(num_iterations) with X is None and Y is None: initialize() up to its loop
RunUnseeded ==
    /\ pc = "constructed"
    /\ \E n \in 0..MaxIter : num_iterations' = n
    /\ seeded' = FALSE
    /\ UNCHANGED <<arg_X, arg_Y>>
    /\ time_func_eval' = init_timing(initialize_n_init_points)
    /\ time_optimization_overhead' = init_timing(initialize_n_init_points)
    /\ X' = init_history
    /\ Y' = init_history
    /\ i' = 0
    /\ pc' = "initialize"
    /\ X_before' = X' /\ Y_before' = Y'
    /\ UNCHANGED <<config, incumbent, incumbent_value, model_untrained, it, new_x,
                   start_time, result, clock, rng, observed>>
    /\ UNCHANGED err
    /\ UNCHANGED <<start_time_inc, pair>>

\* run(num_iterations, X, Y) with a seed history of m rows
RunSeeded ==
    /\ pc = "constructed"
    /\ \E n \in 0..MaxIter : num_iterations' = n
    /\ seeded' = TRUE
    /\ \E m \in 0..MaxSeedLen :
         \E sy \in [1..m -> Values] :
            /\ arg_X' = SeedPoints(m)
            /\ arg_Y' = sy
    /\ X' = adopt_seed(arg_X')
    /\ Y' = adopt_seed(arg_Y')
    /\ time_func_eval' = seed_timing(X')
    /\ time_optimization_overhead' = seed_timing(X')
    /\ it' = n_init_points
    /\ pc' = "loop"
    /\ X_before' = X' /\ Y_before' = Y'
    /\ UNCHANGED <<config, incumbent, incumbent_value, model_untrained, i, new_x,
                   start_time, result, clock, rng, observed, err>>
    /\ UNCHANGED <<start_time_inc, pair>>

\* ---- initialize(): one pass of the loop over range(n_init_points) ----

\* the pass in which task.evaluate returns y
InitDraw ==
    /\ pc = "initialize"
    /\ i < initialize_n_init_points
    /\ \E y \in Values :
        LET x  == rng_point(rng)
            Xn == record_draw(X, i, x)
            Yn == record_draw(Y, i, y)
            best == best_observed(Xn, Yn)
        IN  /\ X_before' = X /\ Y_before' = Y
            /\ rng' = rng_next(rng)
            /\ drawn' = <<x>>
            /\ time_optimization_overhead' =
                   [time_optimization_overhead EXCEPT ![i + 1] = 1]
            /\ eval_arg' = x
            /\ eval_calls' = Append(eval_calls, <<x, y>>)
            /\ time_func_eval' = [time_func_eval EXCEPT ![i + 1] = 1]
            /\ clock' = clock + 2
            /\ start_time' = clock + 1
            /\ X' = Xn
            /\ Y' = Yn
            /\ incumbent' = best.x
            /\ incumbent_value' = best.v
            /\ saved' = IF save_due(save_dir, 0, num_save) THEN Append(saved, <<i, Len(Xn)>>) ELSE saved
    /\ i' = i + 1
    /\ IF i' = initialize_n_init_points
         THEN pc' = "loop" /\ it' = n_init_points
         ELSE pc' = "initialize" /\ it' = it
    /\ UNCHANGED <<config, run_args, model_untrained, new_x, result,
                   train_calls, acq_updates, maximize_calls, max_out, strategy_calls, err>>
    /\ UNCHANGED <<start_time_inc, pair>>

\* the pass in which task.evaluate raises
InitDrawFail ==
    /\ pc = "initialize"
    /\ i < initialize_n_init_points
    /\ X_before' = X /\ Y_before' = Y
    /\ rng' = rng_next(rng)
    /\ drawn' = <<rng_point(rng)>>
    /\ time_optimization_overhead' = [time_optimization_overhead EXCEPT ![i + 1] = 1]
    /\ eval_arg' = rng_point(rng)
    /\ clock' = clock + 2
    /\ start_time' = clock + 1
    /\ X' = after_evaluate(X, rng_point(rng), FALSE)
    /\ Y' = after_evaluate(Y, 0, FALSE)
    /\ pc' = "raised"
    /\ err' = "evaluate"
    /\ UNCHANGED <<config, run_args, time_func_eval, incumbent, incumbent_value,
                   model_untrained, i, it, new_x, result,
                   train_calls, acq_updates, maximize_calls, max_out, strategy_calls,
                   eval_calls, saved>>
    /\ UNCHANGED <<start_time_inc, pair>>

\* ---- run(): the main loop ----

\* One pass begins: do_optimize is decided and choose_next(X, Y, do_optimize)
\* trains the model, updates the acquisition function and asks the maximizer.
ChooseNext ==
    /\ pc = "loop"
    /\ loop_continues(it, num_iterations)
    /\ X_before' = X /\ Y_before' = Y
    /\ start_time' = clock
    /\ train_calls' = Append(train_calls, <<it, do_optimize(it, train_intervall), Len(X)>>)
    /\ model_untrained' = FALSE
    /\ acq_updates' = 1
    /\ maximize_calls' = 1
    /\ \E p \in Points :
        /\ new_x' = p
        /\ max_out' = p
    /\ strategy_calls' = << >>
    /\ drawn' = << >>
    /\ clock' = clock + 2
    /\ start_time_inc' = clock'
    /\ pc' = "recommend"
    /\ UNCHANGED <<config, run_args, X, Y, timing, incumbent, incumbent_value,
                   i, it, result, rng, eval_calls, eval_arg, saved, err>>
    /\ UNCHANGED pair

\* variant: the exception of model.train is logged and swallowed, and choose_next
\* goes on to the acquisition update and the maximizer
TrainFailSwallowed ==
    /\ pc = "loop"
    /\ loop_continues(it, num_iterations)
    /\ X_before' = X /\ Y_before' = Y
    /\ start_time' = clock
    /\ train_calls' = Append(train_calls, <<it, do_optimize(it, train_intervall), Len(X)>>)
    /\ acq_updates' = 1
    /\ maximize_calls' = 1
    /\ \E p \in Points :
        /\ new_x' = p
        /\ max_out' = p
    /\ strategy_calls' = << >>
    /\ drawn' = << >>
    /\ clock' = clock + 2
    /\ start_time_inc' = clock'
    /\ pc' = "recommend"
    /\ err' = "train"
    /\ UNCHANGED <<config, run_args, X, Y, timing, incumbent, incumbent_value,
                   model_untrained, i, it, result, rng, eval_calls, eval_arg, saved>>
    /\ UNCHANGED pair

\* choose_next: model.train raises; the exception is logged and re-raised
TrainFail ==
    /\ pc = "loop"
    /\ loop_continues(it, num_iterations)
    /\ X_before' = X /\ Y_before' = Y
    /\ start_time' = clock
    /\ train_calls' = Append(train_calls, <<it, do_optimize(it, train_intervall), Len(X)>>)
    /\ acq_updates' = 0
    /\ maximize_calls' = 0
    /\ strategy_calls' = << >>
    /\ drawn' = << >>
    /\ clock' = clock + 1
    /\ pc' = "raised"
    /\ err' = "train"
    /\ UNCHANGED <<config, run_args, X, Y, timing, incumbent, incumbent_value,
                   model_untrained, i, it, new_x, result, rng, max_out,
                   eval_calls, eval_arg, saved>>
    /\ UNCHANGED <<start_time_inc, pair>>

\* variant: the overhead is measured when choose_next returns
RecordOverheadOfChooseNext(now) ==
    time_optimization_overhead' =
        Append(time_optimization_overhead, start_time_inc - start_time)

\* the statements after the recommendation step: the overhead is measured and appended
RecordOverhead(now) ==
    time_optimization_overhead' = Append(time_optimization_overhead, now - start_time)

\* Policy A: recommendation_strategy is None
RecommendA ==
    /\ pc = "recommend"
    /\ recommendation_strategy = "None"
    /\ IF Len(Y) = 0
         THEN \* np.argmin of an empty array raises ValueError
              /\ pc' = "raised"
              /\ err' = "argmin"
              /\ UNCHANGED <<incumbent, incumbent_value, time_optimization_overhead>>
         ELSE /\ incumbent' = best_observed(X, Y).x
              /\ incumbent_value' = best_observed(X, Y).v
              /\ RecordOverhead(clock)
              /\ pc' = "evaluate"
              /\ err' = err
    /\ UNCHANGED <<config, run_args, X, Y, time_func_eval, model_untrained,
                   i, it, new_x, start_time, result, clock, rng, observed,
                   X_before, Y_before>>
    /\ UNCHANGED <<start_time_inc, pair>>

\* Policy B: recommendation_strategy is optimize_posterior_mean_and_std
RecommendB ==
    /\ pc = "recommend"
    /\ recommendation_strategy = "optimize_posterior_mean_and_std"
    /\ LET d == recommend_draws(recommendation_strategy, rng, n_restarts)
       IN  /\ rng' = d.state
           /\ drawn' = d.points
           /\ IF Len(Y) = 0
                THEN \* np.argmin of an empty array raises ValueError
                     /\ pc' = "raised"
                     /\ err' = "argmin"
                     /\ clock' = clock + n_restarts
                     /\ UNCHANGED <<incumbent, incumbent_value, strategy_calls,
                                    time_optimization_overhead>>
                ELSE \E ret \in [x : Points, v : Values] \cup {[x |-> NoneVal, v |-> NoneVal]} :
                     /\ strategy_calls' = <<[startpoint |-> startpoints_B(d.points, X, Y),
                                             with_gradients |-> TRUE,
                                             ret |-> ret]>>
                     /\ clock' = clock + n_restarts + 1
                     /\ IF ret.x = NoneVal
                          THEN \* the strategy raises
                               /\ pc' = "raised"
                               /\ err' = "strategy"
                               /\ UNCHANGED <<incumbent, incumbent_value,
                                              time_optimization_overhead>>
                          ELSE /\ incumbent' = ret.x
                               /\ incumbent_value' = ret.v
                               /\ RecordOverhead(clock')
                               /\ pc' = "evaluate"
                               /\ err' = err
    /\ UNCHANGED <<config, run_args, X, Y, time_func_eval, model_untrained,
                   i, it, new_x, start_time, result,
                   train_calls, acq_updates, maximize_calls, max_out,
                   eval_calls, eval_arg, saved, X_before, Y_before>>
    /\ UNCHANGED <<start_time_inc, pair>>

\* Policy C: any other strategy, called once per start point
RecommendC ==
    /\ pc = "recommend"
    /\ recommendation_strategy = "other"
    /\ LET d  == recommend_draws(recommendation_strategy, rng, n_restarts)
           sp == startpoints_C(d.points, X, Y)
           n  == Len(sp)
       IN  /\ rng' = d.state
           /\ drawn' = d.points
           /\ \/ \* every call returns
                 \E rets \in [1..n -> [x : Points, v : Values]] :
                    /\ strategy_calls' = [k \in 1..n |->
                                            [startpoint |-> <<sp[k]>>,
                                             with_gradients |-> FALSE,
                                             ret |-> rets[k]]]
                    /\ clock' = clock + n_restarts + n
                    /\ IF n = 0
                         THEN \* np.argmin of an empty array raises ValueError
                              /\ pc' = "raised"
                              /\ err' = "argmin"
                              /\ UNCHANGED <<incumbent, incumbent_value,
                                             time_optimization_overhead>>
                         ELSE LET x_opt == [k \in 1..n |-> rets[k].x]
                                  fval  == [k \in 1..n |-> rets[k].v]
                              IN  /\ incumbent' = select_best(x_opt, fval).x
                                  /\ incumbent_value' = select_best(x_opt, fval).v
                                  /\ RecordOverhead(clock')
                                  /\ pc' = "evaluate"
                                  /\ err' = err
              \/ \* call number f raises after f - 1 calls returned
                 \E f \in 1..n :
                   \E rets \in [1..(f-1) -> [x : Points, v : Values]] :
                    /\ strategy_calls' = [k \in 1..f |->
                                            [startpoint |-> <<sp[k]>>,
                                             with_gradients |-> FALSE,
                                             ret |-> IF k < f THEN rets[k]
                                                     ELSE [x |-> NoneVal, v |-> NoneVal]]]
                    /\ clock' = clock + n_restarts + f
                    /\ pc' = "raised"
                    /\ err' = "strategy"
                    /\ UNCHANGED <<incumbent, incumbent_value, time_optimization_overhead>>
    /\ UNCHANGED <<config, run_args, X, Y, time_func_eval, model_untrained,
                   i, it, new_x, start_time, result,
                   train_calls, acq_updates, maximize_calls, max_out,
                   eval_calls, eval_arg, saved, X_before, Y_before>>
    /\ UNCHANGED <<start_time_inc, pair>>

\* task.evaluate(new_x) returns y: timings, history and checkpoint are recorded
Evaluate ==
    /\ pc = "evaluate"
    /\ \E y \in Values :
        LET x == candidate(new_x, incumbent)
        IN  /\ eval_arg' = x
            /\ eval_calls' = Append(eval_calls, <<x, y>>)
            /\ X' = after_evaluate(X, x, TRUE)
            /\ Y' = after_evaluate(Y, y, TRUE)
    /\ start_time' = clock
    /\ clock' = clock + 1
    /\ time_func_eval' = Append(time_func_eval, clock' - start_time')
    /\ saved' = IF save_due(save_dir, it, num_save) THEN Append(saved, <<it, Len(X')>>) ELSE saved
    /\ it' = it + 1
    /\ pc' = "loop"
    /\ UNCHANGED <<config, run_args, time_optimization_overhead, incumbent,
                   incumbent_value, model_untrained, i, new_x, result, rng,
                   train_calls, acq_updates, maximize_calls, max_out, strategy_calls,
                   drawn, X_before, Y_before, err>>
    /\ UNCHANGED <<start_time_inc, pair>>

\* task.evaluate(new_x) raises
EvaluateFail ==
    /\ pc = "evaluate"
    /\ eval_arg' = candidate(new_x, incumbent)
    /\ X' = after_evaluate(X, eval_arg', FALSE)
    /\ Y' = after_evaluate(Y, 0, FALSE)
    /\ start_time' = clock
    /\ clock' = clock + 1
    /\ pc' = "raised"
    /\ err' = "evaluate"
    /\ UNCHANGED <<config, run_args, timing, incumbent, incumbent_value,
                   model_untrained, i, it, new_x, result, rng,
                   train_calls, acq_updates, maximize_calls, max_out, strategy_calls,
                   drawn, eval_calls, saved, X_before, Y_before>>
    /\ UNCHANGED <<start_time_inc, pair>>

\* the loop is over: the final log line and the return statement
Return ==
    /\ pc = "loop"
    /\ ~loop_continues(it, num_iterations)
    /\ incumbent_value # NoneVal
    /\ result' = <<incumbent, incumbent_value>>
    /\ pc' = "done"
    /\ UNCHANGED <<config, run_args, X, Y, timing, incumbent, incumbent_value,
                   model_untrained, i, it, new_x, start_time, clock, rng, observed,
                   X_before, Y_before, err>>
    /\ UNCHANGED <<start_time_inc, pair>>

\* the loop is over and no incumbent_value was ever assigned: formatting the
\* final log line raises
ReturnUnset ==
    /\ pc = "loop"
    /\ ~loop_continues(it, num_iterations)
    /\ incumbent_value = NoneVal
    /\ pc' = "raised"
    /\ err' = "return"
    /\ UNCHANGED <<config, run_args, X, Y, timing, incumbent, incumbent_value,
                   model_untrained, i, it, new_x, start_time, result, clock, rng,
                   observed, X_before, Y_before>>
    /\ UNCHANGED <<start_time_inc, pair>>

Next ==
    \/ RunUnseeded
    \/ RunSeeded
    \/ InitDraw
    \/ InitDrawFail
    \/ ChooseNext
    \/ TrainFail
    \/ RecommendA
    \/ RecommendB
    \/ RecommendC
    \/ Evaluate
    \/ EvaluateFail
    \/ Return
    \/ ReturnUnset

Spec == Init /\ [][Next]_vars

\* ---- two runs side by side ----
\* Two objects that differ in recommendation_strategy only run with the same
\* np.random seed, the same seed history, the same n_restarts and the same
\* deterministic collaborators.  Each run is the record [strategy, rng, X, Y,
\* incumbent]; both advance one main-loop iteration at a time.

\* the maximizers compared: one that always proposes the same point, one that
\* moves away from the best observed point, one that draws its proposal from
\* np.random, the stream run() itself draws from
Maximizers == {"constant", "away_from_best", "np_random"}

\* maximize_func.maximize(): [x, state of np.random afterwards]
maximize(kind, s, Xs, Ys) ==
    CASE kind = "constant"       -> [x |-> 0, state |-> s]
      [] kind = "away_from_best" -> [x |-> 1 - best_observed(Xs, Ys).x, state |-> s]
      [] kind = "np_random"      -> [x |-> rng_point(s), state |-> rng_next(s)]

\* a deterministic recommendation strategy: it returns its first start point
strategy_result(startpoint) == [x |-> startpoint[1], v |-> 0]

\* the incumbent the recommendation step of one iteration produces
recommended(strategy, draws, Xs, Ys) ==
    CASE strategy = "None" -> best_observed(Xs, Ys)
      [] strategy = "optimize_posterior_mean_and_std" ->
            strategy_result(startpoints_B(draws, Xs, Ys))
      [] strategy = "other" ->
            LET sp == startpoints_C(draws, Xs, Ys)
            IN  select_best([k \in 1..Len(sp) |-> strategy_result(<<sp[k]>>).x],
                            [k \in 1..Len(sp) |-> strategy_result(<<sp[k]>>).v])

\* one main-loop iteration of run() on the run r: choose_next, the
\* recommendation step, task.evaluate and the append
main_iteration(r, kind, restarts, task) ==
    LET mx  == maximize(kind, r.rng, r.X, r.Y)
        d   == recommend_draws(r.strategy, mx.state, restarts)
        inc == recommended(r.strategy, d.points, r.X, r.Y)
        x   == candidate(mx.x, inc.x)
    IN  [r EXCEPT !.rng = d.state,
                  !.X = after_evaluate(r.X, x, TRUE),
                  !.Y = after_evaluate(r.Y, task[x], TRUE),
                  !.incumbent = inc.x]

\* the run after initialize(): three uniform draws, each evaluated
initialized(strategy, s, task) ==
    LET d == uniform_draws(s, initialize_n_init_points)
    IN  [strategy |-> strategy, rng |-> d.state, X |-> d.points,
         Y |-> [k \in 1..Len(d.points) |-> task[d.points[k]]],
         incumbent |-> NoneVal]

\* the run after the seed of m rows was adopted
seeded_with(strategy, s, task, m) ==
    [strategy |-> strategy, rng |-> s, X |-> adopt_seed(SeedPoints(m)),
     Y |-> adopt_seed([k \in 1..m |-> task[SeedPoints(m)[k]]]),
     incumbent |-> NoneVal]

PairStarts ==
    {[active |-> TRUE, maximizer |-> kind, restarts |-> r, n |-> n, task |-> task,
      it |-> n_init_points,
      runs |-> [k \in 1..2 |->
                  IF m = 0 THEN initialized(st[k], g, task)
                  ELSE seeded_with(st[k], g, task, m)]] :
        kind \in Maximizers, r \in 1..MaxRestarts, n \in 0..MaxIter,
        task \in [Points -> Values], st \in [1..2 -> Strategies],
        g \in RngSeeds, m \in 0..MaxSeedLen}

InitPair ==
    /\ InitObject(DefaultConfig)
    /\ pair \in PairStarts

\* both runs perform main-loop iteration pair.it
PairIterate ==
    /\ pair.active
    /\ loop_continues(pair.it, pair.n)
    /\ pair' = [pair EXCEPT
                  !.it = pair.it + 1,
                  !.runs = [k \in 1..2 |->
                              main_iteration(pair.runs[k], pair.maximizer,
                                             pair.restarts, pair.task)]]
    /\ UNCHANGED <<config, run_args, X, Y, timing, incumbent, incumbent_value,
                   model_untrained, pc, i, it, new_x, start_time, start_time_inc,
                   result, clock, rng, observed, X_before, Y_before, err>>

NextPair == PairIterate

SpecPair == InitPair /\ [][NextPair]_vars

\* ---- states the claims speak about ----

\* a seed draw or a main-loop iteration has just been completed
IterationEnded ==
    \/ pc = "initialize" /\ i >= 1
    \/ pc = "loop" /\ Len(eval_calls) >= 1

\* the main loop's recommendation step has been completed in the current iteration
MainRecommended == maximize_calls = 1 /\ pc \in {"evaluate", "loop", "done"}

\* task.evaluate has been called in the current main-loop iteration
MainEvaluated ==
    /\ maximize_calls = 1
    /\ \/ pc \in {"loop", "done"}
       \/ pc = "raised" /\ err = "evaluate"

AllLengthsEqual ==
    /\ Len(X) = Len(Y)
    /\ Len(Y) = Len(time_func_eval)
    /\ Len(time_func_eval) = Len(time_optimization_overhead)

\* ---- C1 ----

C2_IncumbentIsMinOfY ==
    recommendation_strategy = "None" /\ MainEvaluated /\ pc \in {"loop", "done"} =>
        /\ incumbent_value = Min(Y)
        /\ \E k \in 1..Len(Y) :
              /\ Y[k] = Min(Y)
              /\ \A j \in 1..(k-1) : Y[j] > Y[k]
              /\ incumbent = X[k]

\* ---- C3 ----

\* C3: in every main-loop iteration, under each policy, the point passed to
\* task.evaluate and appended to X is the point maximize() returned in that
\* iteration; the incumbent of the recommendation step takes no part in it.
C3_EvaluatedIsMaximizerOutput ==
    MainEvaluated =>
        /\ eval_arg = max_out
        /\ pc # "raised" => /\ X = Append(X_before, max_out)
                            /\ eval_calls[Len(eval_calls)][1] = max_out

\* under Policy B an iteration has evaluated a candidate that differs from the
\* incumbent the recommendation step produced
C3_Witness ==
    /\ recommendation_strategy = "optimize_posterior_mean_and_std"
    /\ MainEvaluated /\ pc = "loop"
    /\ incumbent # eval_arg

\* ---- C4 ----

\* C4: a run(num_iterations) that completes ends with exactly num_iterations
\* entries in the history, unseeded or seeded with any length m.
C4_TotalIsNumIterations == pc = "done" => Len(X) = num_iterations

\* ---- C5 ----

\* C5: in a seeded run the first m entries of X and Y are the supplied seed, in
\* order, at every later point; the first m entries of both timing series are
\* zero; initialize() never runs, so every evaluated point is a main-loop candidate.
C5_SeedKept ==
    seeded =>
        LET m == Len(arg_X)
        IN  /\ Len(X) >= m /\ Len(Y) >= m
            /\ SubSeq(X, 1, m) = arg_X
            /\ SubSeq(Y, 1, m) = arg_Y
            /\ Len(time_func_eval) >= m /\ Len(time_optimization_overhead) >= m
            /\ \A k \in 1..m : time_func_eval[k] = 0 /\ time_optimization_overhead[k] = 0
            /\ i = 0
            /\ Len(eval_calls) = Len(X) - m
            /\ \A k \in 1..Len(eval_calls) : eval_calls[k] = <<X[m + k], Y[m + k]>>

\* a run seeded with two rows has appended two evaluated candidates
C5_Witness == seeded /\ Len(arg_X) = 2 /\ Len(X) = 4 /\ pc = "done"

\* ---- C6 ----

\* the history that the evaluations of the run account for: the seed rows
\* followed by the evaluated points, in evaluation order
RecordedX == (IF seeded THEN arg_X ELSE << >>) \o [k \in 1..Len(eval_calls) |-> eval_calls[k][1]]
RecordedY == (IF seeded THEN arg_Y ELSE << >>) \o [k \in 1..Len(eval_calls) |-> eval_calls[k][2]]

C7_TrainingCadence ==
    /\ \A k \in 1..Len(train_calls) :
          /\ train_calls[k][1] = n_init_points + k - 1
          /\ train_calls[k][2] <=>
                \E q \in 0..train_calls[k][1] : q * train_intervall = train_calls[k][1]
          /\ train_intervall = 2 /\ train_calls[k][2] =>
                train_calls[k][1] \in {2 * q : q \in 0..MaxIter}
    /\ pc \in {"recommend", "evaluate"} =>
          /\ Len(train_calls) = it - n_init_points + 1
          /\ train_calls[Len(train_calls)][3] = Len(X)
          /\ acq_updates = 1 /\ maximize_calls = 1
          /\ new_x = max_out /\ new_x \in Points
          /\ ~model_untrained

\* with train_intervall = 2, iteration 3 ran without re-optimizing and still got
\* its candidate evaluated, and iteration 4 trained with do_optimize true
C7_Witness ==
    /\ train_intervall = 2 /\ pc = "evaluate" /\ Len(train_calls) = 2
    /\ ~train_calls[1][2] /\ train_calls[2][2]
    /\ Len(eval_calls) >= 1

\* ---- C8 ----

C9_PolicyCCallShape ==
    recommendation_strategy = "other" /\ MainRecommended =>
        /\ Len(strategy_calls) = n_restarts
        /\ Len(drawn) = n_restarts
        /\ \A k \in 1..n_restarts :
              /\ strategy_calls[k].startpoint = <<drawn[k]>>
              /\ ~strategy_calls[k].with_gradients
        /\ \E k \in 1..n_restarts :
              /\ \A j \in 1..n_restarts : strategy_calls[k].ret.v <= strategy_calls[j].ret.v
              /\ \A j \in 1..(k-1) : strategy_calls[j].ret.v > strategy_calls[k].ret.v
              /\ incumbent = strategy_calls[k].ret.x
              /\ incumbent_value = strategy_calls[k].ret.v

\* with n_restarts = 2 both calls returned the same value at different points,
\* and the first one is the incumbent
C9_Witness ==
    /\ recommendation_strategy = "other" /\ n_restarts = 2 /\ pc = "evaluate"
    /\ Len(strategy_calls) = 2
    /\ strategy_calls[1].ret.v = strategy_calls[2].ret.v
    /\ strategy_calls[1].ret.x # strategy_calls[2].ret.x
    /\ incumbent = strategy_calls[1].ret.x

\* ---- C10 ----

\* C10: when task.evaluate raises, in a seed draw or in a main-loop iteration,
\* run() is left by that exception without a result, and X and Y are what they
\* were when the iteration began: the unevaluated point is not recorded.
C10_EvaluationFailureAtomic ==
    pc = "raised" /\ err = "evaluate" =>
        /\ X = X_before /\ Y = Y_before
        /\ result = <<NoneVal, NoneVal>>
        /\ Len(X) = Len(Y)
        /\ (seeded \/ Len(eval_calls) >= 1) => X = RecordedX /\ Y = RecordedY

\* task.evaluate raised in the second main-loop iteration of an unseeded run
C10_Witness ==
    /\ pc = "raised" /\ err = "evaluate"
    /\ ~seeded /\ it = n_init_points + 1 /\ Len(X) = 4
    /\ eval_arg # X[4]

\* ---- C11 ----

\* C11: two runs with the same np.random seed, the same seed history and the
\* same collaborators, differing only in the recommendation policy, append the
\* same sequence of points to X, also when the maximizer draws from the random
\* stream the loop uses.
C11_SameEvaluatedSequence ==
    pair.active => pair.runs[1].X = pair.runs[2].X

\* ---- C12 ----

\* the overhead entry the current main-loop iteration recorded
LastOverhead == time_optimization_overhead[Len(time_optimization_overhead)]

DrawsDone == IF seeded THEN 0 ELSE i
MainDone == Len(eval_calls) - DrawsDone

\* the rows of X when the main loop began
RowsAtLoopStart == IF seeded THEN Len(arg_X) ELSE initialize_n_init_points

\* the save_iteration calls C13 expects of a run with a save directory: one per
\* completed seed draw, then one per completed main-loop iteration whose index
\* is a multiple of num_save, each made when the iteration's point is in X
ExpectedSaves ==
    LET Due(k) == \E q \in 0..k : q * num_save = k
        mains  == SelectSeq([j \in 1..MainDone |-> n_init_points + j - 1], Due)
    IN  [j \in 1..DrawsDone |-> <<j - 1, j>>]
        \o [j \in 1..Len(mains) |->
              <<mains[j], RowsAtLoopStart + (mains[j] - n_init_points) + 1>>]

\* C13: without a save directory save_iteration is never called; with one, it is
\* called after every seed draw, and in a main-loop iteration exactly when the
\* iteration index is a multiple of num_save, after that iteration's candidate
\* has been evaluated and appended to the history.
C13_CheckpointCadence ==
    /\ ~save_dir => saved = << >>
    /\ save_dir => saved = ExpectedSaves

\* with num_save = 2 an unseeded run of five iterations saved the three seed
\* draws and iteration 4, not iteration 3
C13_Witness ==
    /\ save_dir /\ num_save = 2 /\ ~seeded /\ pc = "done"
    /\ saved = << <<0, 1>>, <<1, 2>>, <<2, 3>>, <<4, 5>> >>

\* ---- C14 ----

\* C14: in an unseeded initialization, after each seed draw the incumbent is
\* the point with the minimum value among the points evaluated so far, the
\* first of them on ties, and incumbent_value is that minimum.
C14_SeedingIncumbent ==
    ~seeded /\ i >= 1 /\ MainDone = 0 /\ pc \in {"initialize", "loop", "done"} =>
        /\ Len(eval_calls) = i
        /\ \E k \in 1..i :
              /\ \A j \in 1..i : eval_calls[k][2] <= eval_calls[j][2]
              /\ \A j \in 1..(k-1) : eval_calls[j][2] > eval_calls[k][2]
              /\ incumbent = eval_calls[k][1]
              /\ incumbent_value = eval_calls[k][2]

\* after three seed draws the minimum is held by draws 2 and 3 at different
\* points, and the incumbent is the point of draw 2
C14_Witness ==
    /\ ~seeded /\ i = 3 /\ pc = "loop" /\ MainDone = 0
    /\ Y = <<1, 0, 0>> /\ X[2] # X[3]
    /\ incumbent = X[2]

\* ---- C15 ----

\* C15: a run in which no collaborator fails is not left by an exception, and
\* when it has terminated it has returned a defined (incumbent,
\* incumbent_value) pair, also when it was seeded and its main loop ran no
\* iteration.
C15_ReturnsDefinedResult ==
    /\ pc = "raised" => err \in {"train", "evaluate", "strategy"}
    /\ pc = "done" => result[1] # NoneVal /\ result[2] # NoneVal

\* ---- C16 ----

\* C16: a failure of model.train or of the configured recommendation strategy
\* in a main-loop iteration leaves run() by the exception: the step that fails
\* evaluates nothing, appends nothing, saves nothing, returns nothing and
\* replaces neither the incumbent nor its value; the state it leaves has the
\* history the iteration began with, one task evaluation per completed
\* iteration and no checkpoint of this iteration; and no step follows it.
C16_FailuresAreFatal ==
    [][/\ err' \in {"train", "strategy"} =>
            /\ pc' = "raised"
            /\ X' = X_before' /\ Y' = Y_before'
            /\ MainDone' = it' - n_init_points
            /\ \A k \in 1..Len(saved') : saved'[k][1] # it'
            /\ Len(train_calls') = it' - n_init_points + 1
            /\ result' = <<NoneVal, NoneVal>>
            /\ X' = X /\ Y' = Y /\ timing' = timing
            /\ eval_calls' = eval_calls /\ saved' = saved
            /\ incumbent' = incumbent /\ incumbent_value' = incumbent_value
       /\ pc # "raised"
      ]_vars

\* a strategy failure in a later iteration, where the incumbent that stays is
\* not the best observed point Policy A would have recommended
C16_Witness ==
    /\ pc = "raised" /\ err = "strategy"
    /\ it > n_init_points
    /\ Len(Y) > 0
    /\ incumbent # best_observed(X, Y).x

\* ---- C17 ----

\* C17: under Policy A, after every step that leaves the incumbent set, the
\* incumbent is a point of X and incumbent_value is the value of Y at the same
\* index; and once set, incumbent_value stays set and never increases.
C17_IncumbentObservedAndMonotone ==
    [][recommendation_strategy = "None" =>
          /\ incumbent_value' # NoneVal =>
                \E k \in 1..Len(X') :
                    /\ k <= Len(Y')
                    /\ X'[k] = incumbent'
                    /\ Y'[k] = incumbent_value'
          /\ incumbent_value # NoneVal =>
                /\ incumbent_value' # NoneVal
                /\ incumbent_value' <= incumbent_value
      ]_vars

\* a Policy A run whose incumbent value is below the value observed last, after
\* two main-loop iterations
C17_Witness ==
    /\ recommendation_strategy = "None"
    /\ pc = "loop" /\ MainDone >= 2
    /\ incumbent_value = 0
    /\ Y[Len(Y)] = 1
    /\ Y[Len(Y) - 1] = 1

\* ---- C18 ----

\* C18: in the state left by a failure of task.evaluate in a main-loop
\* iteration, time_func_eval and time_optimization_overhead have the length
\* they had when the iteration began, the length of X.
C18_TimingKeptOnEvaluateFailure ==
    pc = "raised" /\ err = "evaluate" /\ maximize_calls = 1 =>
        /\ X = X_before
        /\ Len(time_func_eval) = Len(X)
        /\ Len(time_optimization_overhead) = Len(X)

\* ---- C19 ----

\* C19: in every state in which X and Y are set, also inside initialize()
\* before the first evaluation has returned and after a failed first
\* evaluation, every entry of X/Y is an entry of the caller's seed or a point
\* task.evaluate was called on together with the value it returned.
C19_NoPlaceholderInHistory ==
    pc # "constructed" =>
        /\ Len(X) = Len(Y)
        /\ \A k \in 1..Len(X) :
              \/ seeded /\ k <= Len(arg_X) /\ X[k] = arg_X[k] /\ Y[k] = arg_Y[k]
              \/ \E j \in 1..Len(eval_calls) : eval_calls[j] = <<X[k], Y[k]>>

\* ---- C20 ----

\* C20: the iteration indices passed to save_iteration during one run are
\* strictly increasing, and each is the zero-based position in X of the point
\* evaluated in that iteration, for unseeded runs and for runs seeded with a
\* history of any length.
C20_CheckpointIndexIsPosition ==
    \A k \in 1..Len(saved) :
        /\ k > 1 => saved[k - 1][1] < saved[k][1]
        /\ saved[k][1] = saved[k][2] - 1

====
